---- MODULE Spec2Model ----
(***************************************************************************)
(* LinkedIn Auto-Networker backend.                                        *)
(*   backend/ai_generator.py : generate_message, get_fallback_message      *)
(*   backend/app.py          : the Flask handlers and the rate limiter     *)
(* Python strings are sequences of one-character strings, so that lower(), *)
(* the `in` substring test and str.format are computed, not assumed.       *)
(***************************************************************************)
EXTENDS Integers, Sequences, FiniteSets, TLC

VARIABLES
  api_key,            \* ai_generator.DEEPSEEK_API_KEY is set (truthy)
  profile_data,       \* the argument of ai_generator.generate_message
  gen_pc,             \* "call": a call is pending; "done": it has returned
  result,             \* what generate_message returned: [kind, text]
  prompt,             \* the local `prompt` at the end of the try block
  template,           \* the local `template` of get_fallback_message
  provider_calls,     \* outbound calls to the external provider so far
  calls,              \* calls of generate_message made so far
  observed,           \* the values returned so far for this profile
  clock,              \* time.time(), in seconds since the process started
  request_timestamps, \* app.request_timestamps
  connection_history, \* app.connection_history
  profiles_data,      \* app.profiles_data
  response,           \* the last HTTP response sent: [op, code, body]
  accepted,           \* the times at which update_rate_limit ran, in order
  handled,            \* requests answered so far, by status code
  pc,                 \* per request thread: the statement it is at
  req,                \* per request thread: request.json
  filtered            \* per request thread: the list built at line 64

gen_vars == <<api_key, profile_data, gen_pc, result, prompt, template,
              provider_calls, calls, observed>>

app_vars == <<clock, request_timestamps, connection_history, profiles_data,
              response, accepted, handled>>

thread_vars == <<pc, req, filtered>>

vars == <<gen_vars, app_vars, thread_vars>>

----------------------------------------------------------------------------
(* Strings *)

S_recruit == <<"r","e","c","r","u","i","t">>
S_talent == <<"t","a","l","e","n","t">>
S_professional == <<"p","r","o","f","e","s","s","i","o","n","a","l">>
S_there == <<"t","h","e","r","e">>
S_your_company == <<"y","o","u","r"," ","c","o","m","p","a","n","y">>
S_our_alma_mater == <<"o","u","r"," ","a","l","m","a"," ","m","a","t","e","r">>
S_our_shared_alma_mater == <<"o","u","r"," ","s","h","a","r","e","d"," ","a","l","m","a"," ","m","a","t","e","r">>
S_this_field == <<"t","h","i","s"," ","f","i","e","l","d">>
S_aspiring_professional == <<"a","s","p","i","r","i","n","g"," ","p","r","o","f","e","s","s","i","o","n","a","l">>
S_current_position == <<"c","u","r","r","e","n","t"," ","p","o","s","i","t","i","o","n">>

K_name == <<"n","a","m","e">>
K_title == <<"t","i","t","l","e">>
K_company == <<"c","o","m","p","a","n","y">>
K_school == <<"s","c","h","o","o","l">>
K_industry == <<"i","n","d","u","s","t","r","y">>
K_your_role == <<"y","o","u","r","_","r","o","l","e">>
K_current_role == <<"c","u","r","r","e","n","t","_","r","o","l","e">>

UpperCase ==
  <<"A","B","C","D","E","F","G","H","I","J","K","L","M",
    "N","O","P","Q","R","S","T","U","V","W","X","Y","Z">>

LowerCase ==
  <<"a","b","c","d","e","f","g","h","i","j","k","l","m",
    "n","o","p","q","r","s","t","u","v","w","x","y","z">>

\* str.lower(), one character
lower_char(c) ==
  IF \E i \in 1..Len(UpperCase) : UpperCase[i] = c
    THEN LowerCase[CHOOSE i \in 1..Len(UpperCase) : UpperCase[i] = c]
    ELSE c

\* str.lower()
lower(s) == [i \in 1..Len(s) |-> lower_char(s[i])]

\* `sub in s` on strings
Contains(sub, s) ==
  \E i \in 0..(Len(s) - Len(sub)) : SubSeq(s, i + 1, i + Len(sub)) = sub

\* dict.get(key, default)
Get(d, key, default) == IF key \in DOMAIN d THEN d[key] ELSE default

----------------------------------------------------------------------------
(* Template Store *)

RECRUITER_FALLBACK ==
  << <<"I","'","m"," ","c","u","r","r","e","n","t","l","y"," ","e","x","p","l","o","r","i","n","g"," ","i","n","t","e","r","n","s","h","i","p"," ","o","p","p","o","r","t","u","n","i","t","i","e","s"," ","i","n"," ","{","i","n","d","u","s","t","r","y","}"," ","a","n","d"," ","w","o","u","l","d"," ","a","p","p","r","e","c","i","a","t","e"," ","c","o","n","n","e","c","t","i","n","g"," ","w","i","t","h"," ","s","o","m","e","o","n","e"," ","f","r","o","m"," ","{","c","o","m","p","a","n","y","}","'","s"," ","t","a","l","e","n","t"," ","t","e","a","m",".">>,
     <<"A","s"," ","a"," ","{","y","o","u","r","_","r","o","l","e","}"," ","p","a","s","s","i","o","n","a","t","e"," ","a","b","o","u","t"," ","{","i","n","d","u","s","t","r","y","}",","," ","I","'","d"," ","l","o","v","e"," ","t","o"," ","c","o","n","n","e","c","t"," ","w","i","t","h"," ","{","c","o","m","p","a","n","y","}","'","s"," ","r","e","c","r","u","i","t","m","e","n","t"," ","t","e","a","m"," ","t","o"," ","s","t","a","y"," ","u","p","d","a","t","e","d"," ","o","n"," ","f","u","t","u","r","e"," ","o","p","p","o","r","t","u","n","i","t","i","e","s",".">>,
     <<"I","'","m"," ","i","m","p","r","e","s","s","e","d"," ","b","y"," ","{","c","o","m","p","a","n","y","}","'","s"," ","w","o","r","k"," ","i","n"," ","{","i","n","d","u","s","t","r","y","}"," ","a","n","d"," ","w","o","u","l","d"," ","w","e","l","c","o","m","e"," ","t","h","e"," ","c","h","a","n","c","e"," ","t","o"," ","c","o","n","n","e","c","t"," ","w","i","t","h"," ","y","o","u","r"," ","r","e","c","r","u","i","t","m","e","n","t"," ","t","e","a","m",".">>,
     <<"W","o","u","l","d"," ","l","o","v","e"," ","t","o"," ","s","t","a","y"," ","c","o","n","n","e","c","t","e","d"," ","w","i","t","h"," ","{","c","o","m","p","a","n","y","}","'","s"," ","t","a","l","e","n","t"," ","a","c","q","u","i","s","i","t","i","o","n"," ","t","e","a","m"," ","a","s"," ","I"," ","e","x","p","l","o","r","e"," ","i","n","t","e","r","n","s","h","i","p"," ","o","p","p","o","r","t","u","n","i","t","i","e","s"," ","i","n"," ","{","i","n","d","u","s","t","r","y","}",".">> >>

ALUMNI_FALLBACK ==
  << <<"A","s"," ","a"," ","f","e","l","l","o","w"," ","{","s","c","h","o","o","l","}"," ","g","r","a","d","u","a","t","e"," ","c","u","r","r","e","n","t","l","y"," ","e","x","p","l","o","r","i","n","g"," ","{","i","n","d","u","s","t","r","y","}"," ","o","p","p","o","r","t","u","n","i","t","i","e","s",","," ","I","'","d"," ","l","o","v","e"," ","t","o"," ","c","o","n","n","e","c","t"," ","a","n","d"," ","h","e","a","r"," ","a","b","o","u","t"," ","y","o","u","r"," ","j","o","u","r","n","e","y"," ","f","r","o","m"," ","{","s","c","h","o","o","l","}"," ","t","o"," ","{","c","u","r","r","e","n","t","_","r","o","l","e","}"," ","a","t"," ","{","c","o","m","p","a","n","y","}",".">>,
     <<"I"," ","n","o","t","i","c","e","d"," ","w","e"," ","b","o","t","h"," ","a","t","t","e","n","d","e","d"," ","{","s","c","h","o","o","l","}"," ","-"," ","w","o","u","l","d"," ","y","o","u"," ","b","e"," ","o","p","e","n"," ","t","o"," ","s","h","a","r","i","n","g"," ","h","o","w"," ","y","o","u","r"," ","e","x","p","e","r","i","e","n","c","e"," ","t","h","e","r","e"," ","h","e","l","p","e","d"," ","s","h","a","p","e"," ","y","o","u","r"," ","p","a","t","h"," ","t","o"," ","{","c","u","r","r","e","n","t","_","r","o","l","e","}"," ","a","t"," ","{","c","o","m","p","a","n","y","}","?">>,
     <<"A","s"," ","a"," ","c","u","r","r","e","n","t"," ","{","s","c","h","o","o","l","}"," ","s","t","u","d","e","n","t"," ","i","n","t","e","r","e","s","t","e","d"," ","i","n"," ","{","i","n","d","u","s","t","r","y","}",","," ","I","'","d"," ","a","p","p","r","e","c","i","a","t","e"," ","c","o","n","n","e","c","t","i","n","g"," ","w","i","t","h"," ","a","l","u","m","n","i"," ","l","i","k","e"," ","y","o","u","r","s","e","l","f"," ","t","o"," ","l","e","a","r","n"," ","a","b","o","u","t"," ","y","o","u","r"," ","c","a","r","e","e","r"," ","j","o","u","r","n","e","y",".">>,
     <<"Y","o","u","r"," ","p","a","t","h"," ","f","r","o","m"," ","{","s","c","h","o","o","l","}"," ","t","o"," ","{","c","u","r","r","e","n","t","_","r","o","l","e","}"," ","a","t"," ","{","c","o","m","p","a","n","y","}"," ","i","s"," ","i","n","s","p","i","r","i","n","g","!"," ","W","o","u","l","d"," ","y","o","u"," ","b","e"," ","o","p","e","n"," ","t","o"," ","c","o","n","n","e","c","t","i","n","g"," ","a","n","d"," ","s","h","a","r","i","n","g"," ","s","o","m","e"," ","c","a","r","e","e","r"," ","i","n","s","i","g","h","t","s","?">> >>

----------------------------------------------------------------------------
(* str.format with keyword arguments: "{key}" replacement fields *)

\* str.find: the position of the first c at or after i, 0 when there is none
Find(s, c, i) ==
  LET at == {j \in i..Len(s) : s[j] = c}
  IN IF at = {} THEN 0 ELSE CHOOSE j \in at : \A k \in at : j <= k

RECURSIVE ParseFrom(_, _)
\* the format string s from position i on, split into literal text and
\* replacement fields; a "{" without "}" gives a field without a name
ParseFrom(s, i) ==
  LET open == Find(s, "{", i) IN
  IF open = 0
    THEN IF i > Len(s) THEN <<>>
         ELSE <<[field |-> FALSE, text |-> SubSeq(s, i, Len(s))]>>
  ELSE LET close == Find(s, "}", open + 1)
           lit == IF open > i
                    THEN <<[field |-> FALSE, text |-> SubSeq(s, i, open - 1)]>>
                    ELSE <<>>
       IN IF close = 0
            THEN lit \o <<[field |-> TRUE, text |-> <<>>]>>
            ELSE lit \o <<[field |-> TRUE, text |-> SubSeq(s, open + 1, close - 1)]>>
                     \o ParseFrom(s, close + 1)

\* the templates of the store, parsed once
ParsedTemplates ==
  [t \in {RECRUITER_FALLBACK[i] : i \in 1..Len(RECRUITER_FALLBACK)} \cup
         {ALUMNI_FALLBACK[i] : i \in 1..Len(ALUMNI_FALLBACK)} |-> ParseFrom(t, 1)]

Parse(s) == IF s \in DOMAIN ParsedTemplates THEN ParsedTemplates[s] ELSE ParseFrom(s, 1)

\* the names of the replacement fields of the format string s
FieldsFrom(s) == {seg.text : seg \in {x \in {Parse(s)[i] : i \in 1..Len(Parse(s))} : x.field}}

RECURSIVE Join(_, _, _)
\* the parsed format string from segment i on, fields replaced from kwargs
Join(segs, i, kwargs) ==
  IF i > Len(segs) THEN <<>>
  ELSE (IF segs[i].field THEN kwargs[segs[i].text] ELSE segs[i].text)
         \o Join(segs, i + 1, kwargs)

\* s.format(...): KeyError/ValueError when a field is not a key
format(s, kwargs) ==
  IF FieldsFrom(s) \subseteq DOMAIN kwargs
    THEN [kind |-> "str", text |-> Join(Parse(s), 1, kwargs)]
    ELSE [kind |-> "raise", text |-> <<>>]

----------------------------------------------------------------------------
(* Profile records: a dict with any subset of the six keys, str values *)

MaxCalls == 2

Missing == <<"<missing>">>

Names == {<<"J","a","n","e">>}
Titles ==
  { <<"S","e","n","i","o","r"," ","R","e","c","r","u","i","t","e","r">>,
    <<"T","a","l","e","n","t"," ","P","a","r","t","n","e","r">>,
    <<"E","n","g","i","n","e","e","r">>,
    <<"R","E","C","R","U","I","T">>,
    <<>> }
Companies == {<<"A","c","m","e">>}
Schools == {<<"T","e","c","h"," ","U">>, <<>>}
Industries == {<<"f","i","n","t","e","c","h">>}
YourRoles == {<<"s","t","u","d","e","n","t">>}

\* the dict holding exactly the keys whose value is not Missing
MkProfile(n, t, c, s, i, r) ==
  LET all == [name |-> n, title |-> t, company |-> c, school |-> s,
              industry |-> i, your_role |-> r]
      keys == {k \in DOMAIN all : all[k] # Missing}
  IN [k \in keys |-> all[k]]

Profiles ==
  { MkProfile(n, t, c, s, i, r) :
      n \in Names \cup {Missing}, t \in Titles \cup {Missing},
      c \in Companies \cup {Missing}, s \in Schools \cup {Missing},
      i \in Industries \cup {Missing}, r \in YourRoles \cup {Missing} }

None == [kind |-> "None", text |-> <<>>]
NoPrompt == [name |-> <<>>, target |-> "-", args |-> <<>>]

----------------------------------------------------------------------------
(* ai_generator.get_fallback_message *)

\* a bug: the fallback test also accepts "talent", as the prompt path does
fallback_is_recruiter_talent(p) ==
  \/ Contains(S_recruit, lower(Get(p, "title", <<>>)))
  \/ Contains(S_talent, lower(Get(p, "title", <<>>)))

fallback_is_recruiter(p) == Contains(S_recruit, lower(Get(p, "title", <<>>)))

fallback_is_alumni(p) == "school" \in DOMAIN p

\* a bug: the school default of the prompt path (line 41) is used
template_vars_prompt_default(p) ==
  (K_name :> Get(p, "name", S_there)) @@
  (K_title :> Get(p, "title", S_professional)) @@
  (K_company :> Get(p, "company", S_your_company)) @@
  (K_school :> Get(p, "school", S_our_alma_mater)) @@
  (K_industry :> Get(p, "industry", S_this_field)) @@
  (K_your_role :> Get(p, "your_role", S_aspiring_professional)) @@
  (K_current_role :> Get(p, "title", S_current_position))

template_vars(p) ==
  (K_name :> Get(p, "name", S_there)) @@
  (K_title :> Get(p, "title", S_professional)) @@
  (K_company :> Get(p, "company", S_your_company)) @@
  (K_school :> Get(p, "school", S_our_shared_alma_mater)) @@
  (K_industry :> Get(p, "industry", S_this_field)) @@
  (K_your_role :> Get(p, "your_role", S_aspiring_professional)) @@
  (K_current_role :> Get(p, "title", S_current_position))

\* a bug: the else branch draws from the recruiter templates alone
fallback_pool_no_union(p) ==
  IF fallback_is_recruiter(p) THEN RECRUITER_FALLBACK
  ELSE IF fallback_is_alumni(p) THEN ALUMNI_FALLBACK
  ELSE RECRUITER_FALLBACK

\* the list random.choice draws from
fallback_pool(p) ==
  IF fallback_is_recruiter(p) THEN RECRUITER_FALLBACK
  ELSE IF fallback_is_alumni(p) THEN ALUMNI_FALLBACK
  ELSE RECRUITER_FALLBACK \o ALUMNI_FALLBACK

\* the return value when random.choice picks element i of the pool
get_fallback_message(p, i) == format(fallback_pool(p)[i], template_vars(p))

----------------------------------------------------------------------------
(* ai_generator.generate_message, credential configured: the try block *)

\* a bug: the prompt test forgets "talent"
prompt_is_recruiter_no_talent(title) == Contains(S_recruit, title)

prompt_is_recruiter(title) ==
  Contains(S_recruit, title) \/ Contains(S_talent, title)

prompt_is_alumni(p) == "school" \in DOMAIN p

\* the f-string prompt: the name in the preamble, the branch taken and the
\* values interpolated into the branch's text, in order
build_prompt(p) ==
  LET name == Get(p, "name", S_there)
      title == lower(Get(p, "title", S_professional))
      company == Get(p, "company", S_your_company)
      school == Get(p, "school", S_our_alma_mater)
      industry == Get(p, "industry", S_this_field)
      your_role == Get(p, "your_role", S_aspiring_professional)
  IN IF prompt_is_recruiter(title)
       THEN [name |-> name, target |-> "Recruiter",
             args |-> <<company, industry, your_role>>]
     ELSE IF prompt_is_alumni(p)
       THEN [name |-> name, target |-> "Alumni",
             args |-> <<school, title, company>>]
     ELSE [name |-> name, target |-> "Generic",
           args |-> <<title, company, industry>>]

\* The try block: every statement is a dict.get, a str.lower, an `in` test
\* or an f-string, none of which raises on a dict of str values. The block
\* ends after the prompt is built: it calls no provider and has no return.
try_block(p) == [kind |-> "ok", prompt |-> build_prompt(p)]

----------------------------------------------------------------------------
(* Actions of the message generator *)

GenInit ==
  /\ api_key \in BOOLEAN
  /\ profile_data \in Profiles
  /\ gen_pc = "call"
  /\ result = None
  /\ prompt = NoPrompt
  /\ template = <<>>
  /\ provider_calls = 0
  /\ calls = 0
  /\ observed = {}

\* generate_message(profile_data), DEEPSEEK_API_KEY unset: lines 32-34
generate_message_no_key ==
  /\ gen_pc = "call"
  /\ ~api_key
  /\ \E i \in 1..Len(fallback_pool(profile_data)) :
       /\ template' = fallback_pool(profile_data)[i]
       /\ result' = get_fallback_message(profile_data, i)
  /\ observed' = observed \cup {result'}
  /\ gen_pc' = "done"
  /\ calls' = calls + 1
  /\ UNCHANGED <<api_key, profile_data, prompt, provider_calls>>
  /\ UNCHANGED <<app_vars, thread_vars>>

\* generate_message(profile_data), DEEPSEEK_API_KEY set: lines 36-75
generate_message_with_key ==
  /\ gen_pc = "call"
  /\ api_key
  /\ LET t == try_block(profile_data) IN
       IF t.kind = "raise"
         THEN /\ \E i \in 1..Len(fallback_pool(profile_data)) :
                   /\ template' = fallback_pool(profile_data)[i]
                   /\ result' = get_fallback_message(profile_data, i)
              /\ prompt' = NoPrompt
         ELSE /\ prompt' = t.prompt
              /\ result' = None
              /\ template' = <<>>
  /\ observed' = observed \cup {result'}
  /\ gen_pc' = "done"
  /\ calls' = calls + 1
  /\ UNCHANGED <<api_key, profile_data, provider_calls>>
  /\ UNCHANGED <<app_vars, thread_vars>>

\* the caller calls generate_message again with the same profile
call_again ==
  /\ gen_pc = "done"
  /\ calls < MaxCalls
  /\ gen_pc' = "call"
  /\ UNCHANGED <<api_key, profile_data, result, prompt, template,
                 provider_calls, calls, observed>>
  /\ UNCHANGED <<app_vars, thread_vars>>

GenNext ==
  \/ generate_message_no_key
  \/ generate_message_with_key
  \/ call_again

----------------------------------------------------------------------------
(* app.py: configuration and inputs *)

\* MAX_REQUESTS_PER_HOUR = int(os.getenv('MAX_REQUESTS_PER_HOUR', 20)),
\* here with the environment variable set to a small value
MAX_REQUESTS_PER_HOUR == 2

\* the 3600 of `one_hour_ago = current_time - 3600`
OneHour == 3600

\* the number of requests a behaviour handles
MaxRequests == 4

\* the values time.time() takes
Instants == {0, 1, 3599, 3600, 3601}

Threads == {1, 2}

NotJson == [is_json |-> FALSE]
Json(data) == [is_json |-> TRUE, data |-> data]

\* bodies of POST /api/record-connection
RecordRequests ==
  { NotJson,
    Json([messageUsed |-> "hi"]),
    Json([profileUrl |-> "u1"]),
    Json([profileUrl |-> "u2", timestamp |-> 42, messageUsed |-> "hi"]) }

\* bodies of POST /api/collect-profiles
CollectRequests ==
  { NotJson,
    Json([other |-> 0]),
    Json([profiles |-> <<[profileUrl |-> "u1", name |-> "A"], [name |-> "B"]>>]),
    Json([profiles |-> <<[profileUrl |-> "u2", name |-> "C", status |-> "new"]>>]) }

\* bodies of the requests the concurrent threads take
ThreadRequests == {NotJson, Json([profileUrl |-> "u1"])}

NoResponse == [op |-> "-", code |-> 0, body |-> <<>>]

----------------------------------------------------------------------------
(* app.py: the rate limiter *)

\* a bug: the check itself records the time of the request
fresh_timestamps_counting(ts, current_time) ==
  LET one_hour_ago == current_time - OneHour
      Keep(t) == t > one_hour_ago
  IN Append(SelectSeq(ts, Keep), current_time)

\* check_rate_limit(): the list request_timestamps is rebound to, line 64
fresh_timestamps(ts, current_time) ==
  LET one_hour_ago == current_time - OneHour
      Keep(t) == t > one_hour_ago
  IN SelectSeq(ts, Keep)

\* a bug: > for >=
at_limit_off_by_one(ts) == Len(ts) > MAX_REQUESTS_PER_HOUR

\* check_rate_limit(): the value returned, line 67
at_limit(ts) == Len(ts) >= MAX_REQUESTS_PER_HOUR

\* update_rate_limit(): line 74
update_rate_limit(ts, now) == Append(ts, now)

----------------------------------------------------------------------------
(* app.py: the handlers' effects *)

\* record_connection: connection_record, lines 158-162
connection_record(data, now) ==
  [profileUrl |-> data.profileUrl,
   timestamp |-> Get(data, "timestamp", now),
   messageUsed |-> Get(data, "messageUsed", "None")]

\* d[key] = value on a dict
Put(d, key, value) ==
  [k \in DOMAIN d \cup {key} |-> IF k = key THEN value ELSE d[k]]

\* record_connection: lines 167-169
mark_connected(profiles, record) ==
  IF record.profileUrl \in DOMAIN profiles
    THEN Put(profiles, record.profileUrl,
             Put(Put(profiles[record.profileUrl], "status", "connected"),
                 "connectionTimestamp", record.timestamp))
    ELSE profiles

\* a bug: the record is inserted at the front
append_history_front(history, record) == <<record>> \o history

\* record_connection: the history after line 164
append_history(history, record) == Append(history, record)

RECURSIVE store_profiles(_, _, _)
\* collect_profiles: the loop of lines 107-110, from element i on
store_profiles(profiles, list, i) ==
  IF i > Len(list) THEN profiles
  ELSE store_profiles(
         IF "profileUrl" \in DOMAIN list[i]
           THEN Put(profiles, list[i].profileUrl, list[i])
           ELSE profiles,
         list, i + 1)

\* record_connection: the request is refused as malformed, lines 135-141
malformed_record(r) == ~r.is_json \/ "profileUrl" \notin DOMAIN r.data

Count(h, code) == [h EXCEPT ![code] = @ + 1]

Requests == handled[200] + handled[400] + handled[429]

----------------------------------------------------------------------------
(* Initial states *)

AppInit ==
  /\ clock = 0
  /\ request_timestamps = <<>>
  /\ connection_history = <<>>
  /\ profiles_data = [k \in {} |-> <<>>]
  /\ response = NoResponse
  /\ accepted = <<>>
  /\ handled = [c \in {200, 400, 429} |-> 0]
  /\ pc = [t \in Threads |-> "idle"]
  /\ req = [t \in Threads |-> NotJson]
  /\ filtered = [t \in Threads |-> <<>>]

\* no call of ai_generator.generate_message is made
GenIdle ==
  /\ api_key = FALSE
  /\ profile_data = [k \in {} |-> <<>>]
  /\ gen_pc = "idle"
  /\ result = None
  /\ prompt = NoPrompt
  /\ template = <<>>
  /\ provider_calls = 0
  /\ calls = 0
  /\ observed = {}

Init == AppInit /\ GenIdle

InitGen == GenInit /\ AppInit

SpecGen == InitGen /\ [][GenNext]_vars

----------------------------------------------------------------------------
(* app.py, one request handled at a time *)

\* time passes between two requests
tick ==
  /\ \E t \in Instants : t > clock /\ clock' = t
  /\ UNCHANGED <<request_timestamps, connection_history, profiles_data,
                 response, accepted, handled>>
  /\ UNCHANGED <<gen_vars, thread_vars>>

\* GET /api/status, lines 85-93
status ==
  /\ response' = [op |-> "status", code |-> 200,
                  body |-> [status |-> "online",
                            profiles_collected |-> Cardinality(DOMAIN profiles_data),
                            connections_sent |-> Len(connection_history),
                            timestamp |-> clock]]
  /\ UNCHANGED <<clock, request_timestamps, connection_history, profiles_data,
                 accepted, handled>>
  /\ UNCHANGED <<gen_vars, thread_vars>>

\* POST /api/collect-profiles, lines 95-116
collect_profiles ==
  /\ \E r \in CollectRequests :
       IF ~r.is_json \/ "profiles" \notin DOMAIN r.data
         THEN /\ response' = [op |-> "collect", code |-> 400, body |-> <<>>]
              /\ UNCHANGED profiles_data
         ELSE /\ profiles_data' = store_profiles(profiles_data, r.data.profiles, 1)
              /\ response' = [op |-> "collect", code |-> 200,
                              body |-> [success |-> TRUE,
                                        profiles_count |->
                                          Cardinality(DOMAIN profiles_data'),
                                        stored |-> Len(r.data.profiles)]]
  /\ UNCHANGED <<clock, request_timestamps, connection_history, accepted,
                 handled>>
  /\ UNCHANGED <<gen_vars, thread_vars>>

\* GET /api/get-profiles, lines 118-130
get_profiles ==
  /\ \E status_filter \in {"", "connected"} :
       response' =
         [op |-> "get", code |-> 200,
          body |-> [profiles |->
            IF status_filter # ""
              THEN { profiles_data[k] : k \in
                       { u \in DOMAIN profiles_data :
                           Get(profiles_data[u], "status", "None") = status_filter } }
              ELSE { profiles_data[k] : k \in DOMAIN profiles_data }]]
  /\ UNCHANGED <<clock, request_timestamps, connection_history, profiles_data,
                 accepted, handled>>
  /\ UNCHANGED <<gen_vars, thread_vars>>

\* POST /api/record-connection, lines 132-175, for the request body r; the
\* clock may advance between check_rate_limit's and update_rate_limit's
\* calls of time.time()
record_connection(r) ==
  /\ Requests < MaxRequests
  /\ IF malformed_record(r)
       THEN /\ response' = [op |-> "record", code |-> 400, body |-> <<>>]
            /\ handled' = Count(handled, 400)
            /\ UNCHANGED <<clock, request_timestamps, connection_history,
                           profiles_data, accepted>>
     ELSE IF at_limit(fresh_timestamps(request_timestamps, clock))
       THEN /\ request_timestamps' = fresh_timestamps(request_timestamps, clock)
            /\ response' = [op |-> "record", code |-> 429, body |-> <<>>]
            /\ handled' = Count(handled, 429)
            /\ UNCHANGED <<clock, connection_history, profiles_data, accepted>>
     ELSE \E now \in {t \in Instants : t >= clock} :
            LET record == connection_record(r.data, now) IN
            /\ clock' = now
            /\ request_timestamps' =
                 update_rate_limit(fresh_timestamps(request_timestamps, clock), now)
            /\ accepted' = Append(accepted, now)
            /\ connection_history' = append_history(connection_history, record)
            /\ profiles_data' = mark_connected(profiles_data, record)
            /\ response' = [op |-> "record", code |-> 200,
                            body |-> [success |-> TRUE,
                                      connections_count |->
                                        Len(connection_history')]]
            /\ handled' = Count(handled, 200)
  /\ UNCHANGED <<gen_vars, thread_vars>>

record_connection_request == \E r \in RecordRequests : record_connection(r)

Next ==
  \/ tick
  \/ status
  \/ collect_profiles
  \/ get_profiles
  \/ record_connection_request

Spec == Init /\ [][Next]_vars

----------------------------------------------------------------------------
(* app.py, record-connection requests handled by concurrent threads:       *)
(* app.run(...) at line 208 starts the threaded development server, and    *)
(* the handler holds no lock, so the threads interleave between statements *)

Goto(t, label) == pc' = [pc EXCEPT ![t] = label]

\* the handler returns: its locals are gone
Return(t) ==
  /\ pc' = [pc EXCEPT ![t] = "idle"]
  /\ req' = [req EXCEPT ![t] = NotJson]
  /\ filtered' = [filtered EXCEPT ![t] = <<>>]

\* time passes while requests are in flight
thread_tick ==
  /\ \E t \in Instants : t > clock /\ clock' = t
  /\ UNCHANGED <<request_timestamps, connection_history, profiles_data,
                 response, accepted, handled>>
  /\ UNCHANGED <<gen_vars, thread_vars>>

\* lines 135-141: a thread takes a request and validates it
thread_begin(t) ==
  /\ pc[t] = "idle"
  /\ Requests + Cardinality({u \in Threads : pc[u] # "idle"}) < MaxRequests
  /\ \E r \in ThreadRequests :
       IF malformed_record(r)
         THEN /\ response' = [op |-> "record", code |-> 400, body |-> <<>>]
              /\ handled' = Count(handled, 400)
              /\ UNCHANGED <<pc, req>>
         ELSE /\ req' = [req EXCEPT ![t] = r]
              /\ Goto(t, "filter")
              /\ UNCHANGED <<response, handled>>
  /\ UNCHANGED <<clock, request_timestamps, connection_history, profiles_data,
                 accepted, filtered>>
  /\ UNCHANGED gen_vars

\* check_rate_limit, lines 60-64: the list comprehension is evaluated
thread_filter(t) ==
  /\ pc[t] = "filter"
  /\ filtered' = [filtered EXCEPT ![t] = fresh_timestamps(request_timestamps, clock)]
  /\ Goto(t, "rebind")
  /\ UNCHANGED <<app_vars, req, gen_vars>>

\* check_rate_limit, line 64: the global is rebound to the new list
thread_rebind(t) ==
  /\ pc[t] = "rebind"
  /\ request_timestamps' = filtered[t]
  /\ Goto(t, "test")
  /\ UNCHANGED <<clock, connection_history, profiles_data, response, accepted,
                 handled, req, filtered, gen_vars>>

\* check_rate_limit, line 67, and the handler's test of it, lines 144-149
thread_test(t) ==
  /\ pc[t] = "test"
  /\ IF at_limit(request_timestamps)
       THEN /\ response' = [op |-> "record", code |-> 429, body |-> <<>>]
            /\ handled' = Count(handled, 429)
            /\ Return(t)
       ELSE /\ Goto(t, "update")
            /\ UNCHANGED <<response, handled, req, filtered>>
  /\ UNCHANGED <<clock, request_timestamps, connection_history, profiles_data,
                 accepted, gen_vars>>

\* update_rate_limit, line 152
thread_update(t) ==
  /\ pc[t] = "update"
  /\ request_timestamps' = update_rate_limit(request_timestamps, clock)
  /\ accepted' = Append(accepted, clock)
  /\ Goto(t, "record")
  /\ UNCHANGED <<clock, connection_history, profiles_data, response, handled,
                 req, filtered, gen_vars>>

\* lines 154-175: the connection is recorded and the response sent
thread_record(t) ==
  /\ pc[t] = "record"
  /\ LET record == connection_record(req[t].data, clock) IN
       /\ connection_history' = append_history(connection_history, record)
       /\ profiles_data' = mark_connected(profiles_data, record)
       /\ response' = [op |-> "record", code |-> 200,
                       body |-> [success |-> TRUE,
                                 connections_count |-> Len(connection_history')]]
  /\ handled' = Count(handled, 200)
  /\ Return(t)
  /\ UNCHANGED <<clock, request_timestamps, accepted, gen_vars>>

ThreadNext ==
  \/ thread_tick
  \/ \E t \in Threads : thread_begin(t)
  \/ \E t \in Threads : thread_filter(t)
  \/ \E t \in Threads : thread_rebind(t)
  \/ \E t \in Threads : thread_test(t)
  \/ \E t \in Threads : thread_update(t)
  \/ \E t \in Threads : thread_record(t)

SpecThreads == Init /\ [][ThreadNext]_vars

----------------------------------------------------------------------------
(* Claims about the message generator, checked under SpecGen *)

Range(f) == {f[i] : i \in DOMAIN f}

RecruiterPool == Range(RECRUITER_FALLBACK)
AlumniPool == Range(ALUMNI_FALLBACK)
AllTemplates == RecruiterPool \cup AlumniPool

\* a call has returned, by the path the credential selects
ReturnedWithKey == gen_pc = "done" /\ api_key
ReturnedWithoutKey == gen_pc = "done" /\ ~api_key

\* the title as the claims read it: lower-cased, a missing title empty
ClaimTitle(p) == lower(IF "title" \in DOMAIN p THEN p.title ELSE <<>>)

\* C1: for every profile and in both configurations, generate_message
\* returns a non-empty string and raises nothing.
C1_ReturnsNonEmptyString ==
  gen_pc = "done" => result.kind = "str" /\ Len(result.text) > 0

\* C2: with a credential, every call of generate_message makes exactly one
\* provider call and returns a string (the provider's text or the fallback
\* rendering); without a credential it makes no provider call and returns
\* a rendering of get_fallback_message's pool.
C2_OneProviderCallOrFallback ==
  gen_pc = "done" =>
    IF api_key
      THEN provider_calls = calls /\ result.kind = "str"
      ELSE /\ provider_calls = 0
           /\ result \in { get_fallback_message(profile_data, i) :
                             i \in 1..Len(fallback_pool(profile_data)) }

\* the category of C3, from the title and the presence of school alone
ClaimCategory(title, has_school) ==
  IF Contains(<<"r","e","c","r","u","i","t">>, title) \/ Contains(<<"t","a","l","e","n","t">>, title)
    THEN "Recruiter"
  ELSE IF has_school THEN "Alumni"
  ELSE "Generic"

\* C3: on the prompt path the profile is Recruiter if the lower-cased title
\* (missing: empty) contains "recruit" or "talent", else Alumni if school is
\* present, else Generic; the recruiter test wins over school, and profiles
\* that agree on title and on the presence of school get the same category.
C3_PromptClassification ==
  ReturnedWithKey =>
    LET title == ClaimTitle(profile_data)
        has_school == "school" \in DOMAIN profile_data
    IN /\ prompt.target = ClaimCategory(title, has_school)
       /\ \A q \in Profiles :
            (ClaimTitle(q) = title /\ ("school" \in DOMAIN q) = has_school)
            => build_prompt(q).target = prompt.target

C3_Witness ==
  /\ ReturnedWithKey
  /\ "title" \in DOMAIN profile_data
  /\ profile_data.title = <<"T","a","l","e","n","t"," ","P","a","r","t","n","e","r">>
  /\ "school" \in DOMAIN profile_data
  /\ prompt.target = "Recruiter"

\* the pool of C4
ClaimPool(p) ==
  IF Contains(<<"r","e","c","r","u","i","t">>, ClaimTitle(p)) THEN RecruiterPool
  ELSE IF "school" \in DOMAIN p THEN AlumniPool
  ELSE AllTemplates

\* C4: the fallback message is the rendering of a template of the pool its
\* own classification fixes ("recruit" only; then school; then the union),
\* and of no template outside that pool; both pools hold four templates.
C4_FallbackPool ==
  /\ Cardinality(RecruiterPool) = 4
  /\ Cardinality(AlumniPool) = 4
  /\ ReturnedWithoutKey =>
       /\ template \in ClaimPool(profile_data)
       /\ result = format(template, template_vars(profile_data))
       /\ \A t \in AllTemplates \ ClaimPool(profile_data) :
            result # format(t, template_vars(profile_data))

C4_Witness ==
  /\ ReturnedWithoutKey
  /\ "title" \in DOMAIN profile_data
  /\ profile_data.title = <<"T","a","l","e","n","t"," ","P","a","r","t","n","e","r">>
  /\ "school" \notin DOMAIN profile_data
  /\ template \in AlumniPool

ClaimGeneric(p) ==
  ~Contains(<<"r","e","c","r","u","i","t">>, ClaimTitle(p)) /\ "school" \notin DOMAIN p

\* C5: for a Generic profile every fallback output is the rendering of one
\* of the 8 templates of the two pools, and each of the 8 is an element of
\* the list random.choice draws from, so each is a possible outcome.
C5_GenericUnion ==
  (~api_key /\ ClaimGeneric(profile_data)) =>
    LET pool == fallback_pool(profile_data)
        kwargs == template_vars(profile_data)
    IN /\ Cardinality(AllTemplates) = 8
       /\ observed \subseteq {format(t, kwargs) : t \in AllTemplates}
       /\ {pool[i] : i \in 1..Len(pool)} = AllTemplates

C5_Witness ==
  /\ ~api_key
  /\ ClaimGeneric(profile_data)
  /\ \E r \in observed : \E t \in RecruiterPool :
       r = format(t, template_vars(profile_data))
  /\ \E r \in observed : \E t \in AlumniPool :
       r = format(t, template_vars(profile_data))

\* the table of C6: variable, source field, default
ClaimTable ==
  { <<<<"n","a","m","e">>, "name", <<"t","h","e","r","e">>>>,
    <<<<"t","i","t","l","e">>, "title", <<"p","r","o","f","e","s","s","i","o","n","a","l">>>>,
    <<<<"c","o","m","p","a","n","y">>, "company", <<"y","o","u","r"," ","c","o","m","p","a","n","y">>>>,
    <<<<"s","c","h","o","o","l">>, "school", <<"o","u","r"," ","s","h","a","r","e","d"," ","a","l","m","a"," ","m","a","t","e","r">>>>,
    <<<<"i","n","d","u","s","t","r","y">>, "industry", <<"t","h","i","s"," ","f","i","e","l","d">>>>,
    <<<<"y","o","u","r","_","r","o","l","e">>, "your_role", <<"a","s","p","i","r","i","n","g"," ","p","r","o","f","e","s","s","i","o","n","a","l">>>>,
    <<<<"c","u","r","r","e","n","t","_","r","o","l","e">>, "title", <<"c","u","r","r","e","n","t"," ","p","o","s","i","t","i","o","n">>>> }

ClaimValue(p, row) == IF row[2] \in DOMAIN p THEN p[row[2]] ELSE row[3]

\* C6: the fallback rendering never fails and leaves no placeholder: the
\* seven variables resolve to the field's value, or to the table default
\* when the field is missing, and every variable the chosen template names
\* is replaced by that value.
C6_FallbackSubstitution ==
  ReturnedWithoutKey =>
    /\ result.kind = "str"
    /\ \A i \in 1..Len(result.text) : result.text[i] \notin {"{", "}"}
    /\ DOMAIN template_vars(profile_data) = {row[1] : row \in ClaimTable}
    /\ \A row \in ClaimTable :
         /\ template_vars(profile_data)[row[1]] = ClaimValue(profile_data, row)
         /\ row[1] \in FieldsFrom(template) =>
              Contains(ClaimValue(profile_data, row), result.text)
    /\ FieldsFrom(template) \subseteq {row[1] : row \in ClaimTable}

C6_Witness ==
  /\ ReturnedWithoutKey
  /\ DOMAIN profile_data = {}
  /\ FieldsFrom(template) = {<<"s","c","h","o","o","l">>, <<"c","u","r","r","e","n","t","_","r","o","l","e">>, <<"c","o","m","p","a","n","y">>}
  /\ Contains(<<"o","u","r"," ","s","h","a","r","e","d"," ","a","l","m","a"," ","m","a","t","e","r">>, result.text)
  /\ Contains(<<"c","u","r","r","e","n","t"," ","p","o","s","i","t","i","o","n">>, result.text)

----------------------------------------------------------------------------
(* Claims about the connection recorder, checked under Spec / SpecThreads *)

\* the accepted requests whose acceptance time lies in the last 3600 s
AcceptedInWindow(now) ==
  Cardinality({i \in 1..Len(accepted) :
                 accepted[i] > now - 3600 /\ accepted[i] <= now})

\* this step answers a record-connection request with a code of `codes`
RecordAnswered(codes) ==
  /\ Requests' = Requests + 1
  /\ response'.op = "record"
  /\ response'.code \in codes

\* C7: handled one at a time under a non-decreasing clock, never more than
\* MAX_REQUESTS_PER_HOUR accepted requests lie in the last 3600 seconds, and
\* a well-formed request gets 429 exactly when MAX_REQUESTS_PER_HOUR
\* accepted requests lie in the window at its check (so it is accepted
\* again once old acceptances have left the window).
C7_HourlyCap ==
  /\ [](AcceptedInWindow(clock) <= MAX_REQUESTS_PER_HOUR)
  /\ [][RecordAnswered({200, 429}) =>
          (response'.code = 429 <=>
             AcceptedInWindow(clock) = MAX_REQUESTS_PER_HOUR)]_vars

C7_Witness ==
  /\ handled[429] > 0
  /\ response.op = "record"
  /\ response.code = 200
  /\ Len(accepted) > MAX_REQUESTS_PER_HOUR

IsPrefix(a, b) == Len(a) <= Len(b) /\ SubSeq(b, 1, Len(a)) = a

\* C8: connection_history is append-only: every step leaves the existing
\* entries in place, an accepted record-connection request appends exactly
\* one entry and nothing else appends, so its length is the number of
\* requests accepted so far, which is what status and record_connection
\* report.
C8_AppendOnlyLog ==
  /\ [](Len(connection_history) = handled[200])
  /\ [][/\ IsPrefix(connection_history, connection_history')
        /\ Len(connection_history') =
             Len(connection_history) + (IF RecordAnswered({200}) THEN 1 ELSE 0)]_vars
  /\ [](response.op = "status" =>
          response.body.connections_sent = Len(connection_history))
  /\ [](response.op = "record" /\ response.code = 200 =>
          response.body.connections_count = Len(connection_history))

C8_Witness ==
  /\ response.op = "status"
  /\ response.body.connections_sent = 3
  /\ handled[429] > 0

\* a is b with some elements left out
RECURSIVE IsSubsequence(_, _)
IsSubsequence(a, b) ==
  IF a = <<>> THEN TRUE
  ELSE IF b = <<>> THEN FALSE
  ELSE IF Head(a) = Head(b) THEN IsSubsequence(Tail(a), Tail(b))
  ELSE IsSubsequence(a, Tail(b))

\* C9: a record-connection request refused with 400 or 429 leaves
\* connection_history and profiles_data unchanged and adds no timestamp to
\* request_timestamps, so it takes no slot of the hourly cap.
C9_RefusedLeavesState ==
  [][RecordAnswered({400, 429}) =>
       /\ connection_history' = connection_history
       /\ profiles_data' = profiles_data
       /\ accepted' = accepted
       /\ IsSubsequence(request_timestamps', request_timestamps)]_vars

C9_Witness ==
  /\ response.op = "record"
  /\ response.code = 429
  /\ handled[400] > 0
  /\ DOMAIN profiles_data # {}
  /\ Len(request_timestamps) = MAX_REQUESTS_PER_HOUR

\* C10: with record-connection requests handled concurrently, still never
\* more than MAX_REQUESTS_PER_HOUR accepted requests lie in any window of
\* 3600 seconds.
C10_ConcurrentCap ==
  \A now \in Instants : AcceptedInWindow(now) <= MAX_REQUESTS_PER_HOUR

====
